---------------------------- MODULE Spec2Model ----------------------------
(***************************************************************************)
(* Model of the blood-report analysis services of medalizer_backend:      *)
(*   app/services/ner_service.py  NERService  (extract_metrics,           *)
(*                                             analyze_text)              *)
(*   app/services/rag_service.py  RAGService  (generate_recommendations,  *)
(*                                             generate_summary)          *)
(*   app/services/ocr_service.py  OCRService  (extract_text_from_pdf,     *)
(*                                             extract_text)              *)
(*   app/routes/reports.py        upload_report, delete_report over the   *)
(*                                tables of app/database.py               *)
(*                                                                         *)
(* Texts are TLA+ strings; a character is a string of length one. Texts   *)
(* are ASCII: \s and str.strip() are modelled on space, tab, newline,     *)
(* carriage return and form feed, \d on the ten ASCII digits.             *)
(* Floats are exact decimals [num, den] (den a power of ten, lowest       *)
(* terms), which is exact for every literal the model parses or holds.    *)
(* The three non-ASCII glyphs that prefix recommendation lines are        *)
(* written in ASCII: the information sign as "(i)", the bullet as "*",    *)
(* the check mark as "(ok)".                                               *)
(***************************************************************************)
EXTENDS Integers, Sequences, FiniteSets, TLC

VARIABLES
    blood_params,     \* NERService.blood_params: the parameter catalog
    knowledge_base,   \* RAGService.knowledge_base
    text,             \* per caller: the text handed to the services
    pc,               \* per caller: position in the call chain
    metrics,          \* per caller: result of the direct extract_metrics call
    raised,           \* per caller: exception that escaped a call, or "none"
    analysis,         \* per caller: result of analyze_text
    recommendations,  \* per caller: result of generate_recommendations
    summary,          \* per caller: result of generate_summary
    pdf,              \* the document extract_text_from_pdf was called with
    all_text,         \* extract_text_from_pdf: the list all_text
    ocr_i,            \* extract_text_from_pdf: the loop index i
    ocr_pc,           \* extract_text_from_pdf: position in the function
    ocr_result,       \* extract_text_from_pdf: text returned, exception raised
    reports,          \* table reports
    metric_rows,      \* table metrics
    recommendation_rows,  \* table recommendations
    files,            \* the upload directory: path -> content of the file
    response          \* the last request and the response it got

ocrVars == <<pdf, all_text, ocr_i, ocr_pc, ocr_result>>

webVars == <<reports, metric_rows, recommendation_rows, files, response>>

serviceVars == <<blood_params, knowledge_base, text, pc, metrics, raised, analysis,
                 recommendations, summary>>

vars == <<serviceVars, ocrVars, webVars>>

-----------------------------------------------------------------------------
(* Bounds of the model.                                                    *)

MaxLines == 3        \* lines in a generated multi-line report
MaxAlphaLen == 4     \* length of the exhaustively enumerated short texts

Callers == {1, 2}    \* concurrent users of the one service instance

-----------------------------------------------------------------------------
(* Characters and the str methods the services use.                        *)

LowerLetters == "abcdefghijklmnopqrstuvwxyz"
UpperLetters == "ABCDEFGHIJKLMNOPQRSTUVWXYZ"

Ch(s, i) == SubSeq(s, i, i)

CharsOf(s) == {Ch(s, i) : i \in 1..Len(s)}

LowerSet == CharsOf(LowerLetters)
UpperSet == CharsOf(UpperLetters)

\* regex class [a-zA-Z]
AlphaCh == LowerSet \cup UpperSet
\* regex class \s (and the characters str.strip() removes)
SpaceCh == {" ", "\t", "\n", "\r", "\f"}
\* regex class \d
DigitCh == {"0", "1", "2", "3", "4", "5", "6", "7", "8", "9"}
\* regex class [a-zA-Z\s]
LabelCh == AlphaCh \cup SpaceCh
\* regex class [:\-]
SepCh == {":", "-"}
\* regex class [a-zA-Z/]
UnitCh == AlphaCh \cup {"/"}

IndexOf(c, alphabet) == CHOOSE i \in 1..Len(alphabet) : Ch(alphabet, i) = c

LowerChar(c) == IF c \in UpperSet THEN Ch(LowerLetters, IndexOf(c, UpperLetters)) ELSE c
UpperChar(c) == IF c \in LowerSet THEN Ch(UpperLetters, IndexOf(c, LowerLetters)) ELSE c

RECURSIVE MapChars(_, _)
\* s with every character c replaced by f[c] (f total on the characters of s)
MapChars(f, s) ==
    IF s = "" THEN "" ELSE f[Head(s)] \o MapChars(f, Tail(s))

\* mutant of Lower: the label is compared in its original case
Lower_Identity(s) == s

\* str.lower()
Lower(s) == MapChars([c \in CharsOf(s) |-> LowerChar(c)], s)

\* str.capitalize(): first character upper-cased, the rest lower-cased
Capitalize(s) ==
    IF s = "" THEN "" ELSE UpperChar(Head(s)) \o Lower(Tail(s))

\* str.replace(' ', '_')
ReplaceSpaces(s) ==
    MapChars([c \in CharsOf(s) |-> IF c = " " THEN "_" ELSE c], s)

RECURSIVE LStrip(_)
LStrip(s) == IF s # "" /\ Head(s) \in SpaceCh THEN LStrip(Tail(s)) ELSE s

RECURSIVE RStrip(_)
RStrip(s) ==
    IF s # "" /\ Ch(s, Len(s)) \in SpaceCh
    THEN RStrip(SubSeq(s, 1, Len(s) - 1)) ELSE s

\* str.strip()
Strip(s) == RStrip(LStrip(s))

\* Python's "sub in s" on strings
Contains(sub, s) ==
    \E i \in 1..(Len(s) - Len(sub) + 1) : SubSeq(s, i, i + Len(sub) - 1) = sub

-----------------------------------------------------------------------------
(* Numbers.                                                                *)

Dec(n, d) == [num |-> n, den |-> d]

RECURSIVE Norm(_)
\* lowest terms over powers of ten, so that equal numbers are equal records
Norm(a) ==
    IF a.den > 1 /\ a.num % 10 = 0
    THEN Norm(Dec(a.num \div 10, a.den \div 10)) ELSE a

Whole(n) == Dec(n, 1)
Tenths(n) == Norm(Dec(n, 10))

Lt(a, b) == a.num * b.den < b.num * a.den

DigitVal(c) == CHOOSE d \in 0..9 : ToString(d) = c

RECURSIVE DigitsToNat(_, _)
DigitsToNat(s, acc) ==
    IF s = "" THEN acc ELSE DigitsToNat(Tail(s), 10 * acc + DigitVal(Head(s)))

RECURSIVE Pow10(_)
Pow10(k) == IF k = 0 THEN 1 ELSE 10 * Pow10(k - 1)

\* float(value_str) on the strings the pattern's group 2 can hand it
\* (digits, an optional dot, digits); anything else is a ValueError.
ParseFloat(s) ==
    LET dots == {i \in 1..Len(s) : Ch(s, i) = "."}
        dot == IF dots = {} THEN Len(s) + 1 ELSE CHOOSE i \in dots : \A j \in dots : i <= j
        ip == SubSeq(s, 1, dot - 1)
        fp == SubSeq(s, dot + 1, Len(s))
        wellFormed == /\ CharsOf(ip) \subseteq DigitCh
                      /\ CharsOf(fp) \subseteq DigitCh
                      /\ Len(ip) + Len(fp) >= 1
    IN  IF wellFormed
        THEN [ok |-> TRUE,
              value |-> Norm(Dec(DigitsToNat(ip \o fp, 0), Pow10(Len(fp))))]
        ELSE [ok |-> FALSE, value |-> Whole(0)]

-----------------------------------------------------------------------------
(* NERService.__init__: the catalog, in the dict's insertion order.        *)

Entry(k, u, lo, hi, al) ==
    [key |-> k, unit |-> u, min |-> lo, max |-> hi, aliases |-> al]

InitialBloodParams == <<
    Entry("hemoglobin", "g/dL", Whole(12), Whole(16), <<"hb", "haemoglobin">>),
    Entry("wbc", "cells/mcL", Whole(4000), Whole(10000),
          <<"white blood cells", "leukocytes">>),
    Entry("rbc", "million cells/mcL", Tenths(45), Tenths(55),
          <<"red blood cells", "erythrocytes">>),
    Entry("platelets", "cells/mcL", Whole(150000), Whole(400000),
          <<"platelet count", "thrombocytes">>),
    Entry("glucose", "mg/dL", Whole(70), Whole(100),
          <<"blood sugar", "fasting glucose">>),
    Entry("cholesterol", "mg/dL", Whole(0), Whole(200), <<"total cholesterol">>),
    Entry("triglycerides", "mg/dL", Whole(0), Whole(150), <<>>),
    Entry("hdl", "mg/dL", Whole(40), Whole(200),
          <<"hdl cholesterol", "good cholesterol">>),
    Entry("ldl", "mg/dL", Whole(0), Whole(100),
          <<"ldl cholesterol", "bad cholesterol">>),
    Entry("creatinine", "mg/dL", Tenths(7), Tenths(13), <<>>),
    Entry("urea", "mg/dL", Whole(7), Whole(20), <<"blood urea nitrogen", "bun">>),
    Entry("alt", "U/L", Whole(7), Whole(56), <<"sgpt", "alanine aminotransferase">>),
    Entry("ast", "U/L", Whole(10), Whole(40),
          <<"sgot", "aspartate aminotransferase">>),
    Entry("tsh", "mIU/L", Tenths(4), Whole(4), <<"thyroid stimulating hormone">>),
    Entry("t3", "ng/dL", Whole(80), Whole(200), <<"triiodothyronine">>),
    Entry("t4", "mcg/dL", Whole(5), Whole(12), <<"thyroxine">>) >>


-----------------------------------------------------------------------------
\* re.findall(pattern, text) for
\*   pattern = ([a-zA-Z\s]+?)\s*[:\-]\s*(\d+\.?\d*)\s*([a-zA-Z/]+)?

RECURSIVE SkipWhile(_, _, _)
\* the first position >= i of s whose character is not in class (greedy X*)
SkipWhile(class, s, i) ==
    IF i <= Len(s) /\ Ch(s, i) \in class THEN SkipWhile(class, s, i + 1) ELSE i

NoMatch == [ok |-> FALSE, label |-> "", value |-> "", unit |-> "", end |-> 0]

\* The pattern after group 1, tried at position p:
\*   \s*[:\-]\s*(\d+\.?\d*)\s*([a-zA-Z/]+)?
\* Every quantifier here is greedy and is followed by a class disjoint from
\* its own (or by something that can match the empty string), so giving back
\* characters never turns a failure into a match: the greedy choice is the
\* only one the engine can succeed with.
MatchRest(s, p) ==
    LET sep == SkipWhile(SpaceCh, s, p)
        d0 == SkipWhile(SpaceCh, s, sep + 1)
        d1 == SkipWhile(DigitCh, s, d0)
        d2 == IF d1 <= Len(s) /\ Ch(s, d1) = "." THEN d1 + 1 ELSE d1
        d3 == SkipWhile(DigitCh, s, d2)
        u0 == SkipWhile(SpaceCh, s, d3)
        u1 == SkipWhile(UnitCh, s, u0)
    IN  IF sep <= Len(s) /\ Ch(s, sep) \in SepCh /\ d1 > d0
        THEN [ok |-> TRUE, label |-> "", value |-> SubSeq(s, d0, d3 - 1),
              unit |-> SubSeq(s, u0, u1 - 1), end |-> u1]
        ELSE NoMatch

RECURSIVE LazyLabel(_, _, _)
\* Group 1, ([a-zA-Z\s]+?), is lazy: the engine tries the label
\* s[start .. start+k-1] for k = 1, 2, ... and keeps the first k for which
\* the rest of the pattern matches.
LazyLabel(s, start, k) ==
    IF start + k - 1 > Len(s) \/ Ch(s, start + k - 1) \notin LabelCh
    THEN NoMatch
    ELSE LET r == MatchRest(s, start + k)
         IN  IF r.ok
             THEN [r EXCEPT !.label = SubSeq(s, start, start + k - 1)]
             ELSE LazyLabel(s, start, k + 1)

\* the match that begins exactly at position start, if any
MatchAt(s, start) == LazyLabel(s, start, 1)

RECURSIVE FindAllFrom(_, _)
\* the scan of re.findall: leftmost match first, then on from its end
FindAllFrom(s, pos) ==
    IF pos > Len(s) THEN <<>>
    ELSE LET m == MatchAt(s, pos)
         IN  IF m.ok
             THEN <<[label |-> m.label, value |-> m.value, unit |-> m.unit]>>
                  \o FindAllFrom(s, m.end)
             ELSE FindAllFrom(s, pos + 1)

FindAll(s) == FindAllFrom(s, 1)

-----------------------------------------------------------------------------
(* NERService.extract_metrics                                              *)

\* any(alias in param_name for alias in param_info['aliases'])
AnyAlias(aliases, param_name) ==
    \E j \in 1..Len(aliases) : Contains(aliases[j], param_name)

\* param_key in param_name or any(alias in param_name ...)
EntryMatches(entry, param_name) ==
    \/ Contains(entry.key, param_name)
    \/ AnyAlias(entry.aliases, param_name)

\* the length of the longest key or alias of entry found in param_name
LongestHit(entry, param_name) ==
    LET hits == {l \in {entry.key} \cup {entry.aliases[j] : j \in 1..Len(entry.aliases)} :
                     Contains(l, param_name)}
    IN  IF hits = {} THEN 0
        ELSE CHOOSE n \in {Len(l) : l \in hits} : \A l \in hits : Len(l) <= n

\* mutant of FindParam: the entry with the longest matching key or alias wins
FindParam_LongestMatch(catalog, param_name) ==
    LET hits == {i \in 1..Len(catalog) : EntryMatches(catalog[i], param_name)}
    IN  IF hits = {} THEN 0
        ELSE CHOOSE i \in hits :
                 \A j \in hits :
                     \/ LongestHit(catalog[j], param_name) < LongestHit(catalog[i], param_name)
                     \/ /\ LongestHit(catalog[j], param_name) = LongestHit(catalog[i], param_name)
                        /\ i <= j

\* the for/break loop over blood_params.items(): the index of the first
\* entry that matches, 0 for found_param = None
FindParam(catalog, param_name) ==
    LET hits == {i \in 1..Len(catalog) : EntryMatches(catalog[i], param_name)}
    IN  IF hits = {} THEN 0 ELSE CHOOSE i \in hits : \A j \in hits : i <= j

\* mutant of StatusOf: the bounds themselves count as out of range
StatusOf_BoundsExcluded(value, param_info) ==
    IF ~Lt(param_info.min, value) THEN "low"
    ELSE IF ~Lt(value, param_info.max) THEN "high"
    ELSE "normal"

\* status = 'normal'; if value < min: 'low'; elif value > max: 'high'
StatusOf(value, param_info) ==
    IF Lt(value, param_info.min) THEN "low"
    ELSE IF Lt(param_info.max, value) THEN "high"
    ELSE "normal"

\* the dict appended to metrics
MakeMetric(entry, value, unit) ==
    [name |-> Capitalize(entry.key),
     value |-> value,
     unit |-> IF unit # "" THEN unit ELSE entry.unit,
     reference_min |-> entry.min,
     reference_max |-> entry.max,
     status |-> StatusOf(value, entry)]

\* mutant of FoundGuard: the catalog is indexed without the guard
FoundGuard_Missing(found_param) == TRUE

\* if found_param: -- the guard before self.blood_params[found_param]
FoundGuard(found_param) == found_param # 0

\* One pass of the loop body over a match. Result: what is appended to
\* metrics (a sequence of zero or one metric) and the exception that escapes.
ProcessMatch(catalog, match) ==
    LET param_name == Lower(Strip(match.label))
        unit == Strip(match.unit)
        parsed == ParseFloat(Strip(match.value))
        found_param == FindParam(catalog, param_name)
    IN  IF ~parsed.ok
        THEN [add |-> <<>>, raised |-> "none"]          \* except ValueError: continue
        ELSE IF ~FoundGuard(found_param)
        THEN [add |-> <<>>, raised |-> "none"]
        ELSE IF found_param \notin 1..Len(catalog)
        THEN [add |-> <<>>, raised |-> "KeyError"]      \* self.blood_params[None]
        ELSE [add |-> <<MakeMetric(catalog[found_param], parsed.value, unit)>>,
              raised |-> "none"]

RECURSIVE ProcessMatches(_, _, _)
\* for match in matches: ...   (acc is the list metrics so far)
ProcessMatches(catalog, matches, acc) ==
    IF matches = <<>> THEN [metrics |-> acc, raised |-> "none"]
    ELSE LET r == ProcessMatch(catalog, Head(matches))
         IN  IF r.raised # "none"
             THEN [metrics |-> acc, raised |-> r.raised]
             ELSE ProcessMatches(catalog, Tail(matches), acc \o r.add)

\* extract_metrics(text) run against the catalog as it is now
extract_metrics(catalog, t) == ProcessMatches(catalog, FindAll(t), <<>>)

-----------------------------------------------------------------------------
(* NERService.analyze_text                                                 *)

\* mutant of OverallStatus: only high metrics raise a warning
OverallStatus_HighOnly(ms) ==
    IF \E i \in 1..Len(ms) : ms[i].status = "critical" THEN "critical"
    ELSE IF \E i \in 1..Len(ms) : ms[i].status = "high" THEN "warning"
    ELSE "normal"

OverallStatus(ms) ==
    IF \E i \in 1..Len(ms) : ms[i].status = "critical" THEN "critical"
    ELSE IF \E i \in 1..Len(ms) : ms[i].status \in {"low", "high"} THEN "warning"
    ELSE "normal"

analyze_text(catalog, t) ==
    LET r == extract_metrics(catalog, t)
    IN  [metrics |-> r.metrics,
         status |-> OverallStatus(r.metrics),
         total_params |-> Len(r.metrics),
         raised |-> r.raised]

-----------------------------------------------------------------------------
(* RAGService._load_knowledge_base: the default knowledge base             *)

Knowledge(d, lc, hc, lo, hi) ==
    [description |-> d, low_causes |-> lc, high_causes |-> hc,
     recommendations |-> [low |-> lo, high |-> hi]]

default_knowledge ==
    [hemoglobin |->
        Knowledge("Hemoglobin is a protein in red blood cells that carries oxygen throughout the body.",
                  <<"Anemia", "Blood loss", "Nutritional deficiency">>,
                  <<"Dehydration", "Lung disease", "Living at high altitude">>,
                  <<"Increase iron-rich foods", "Consider iron supplements", "Consult a doctor">>,
                  <<"Stay hydrated", "Avoid smoking", "Consult a doctor">>),
     wbc |->
        Knowledge("White blood cells help fight infections and are part of the immune system.",
                  <<"Viral infections", "Autoimmune disorders", "Bone marrow problems">>,
                  <<"Infection", "Inflammation", "Leukemia">>,
                  <<"Avoid infections", "Maintain good hygiene", "Consult a doctor">>,
                  <<"Monitor for infection", "Consult a doctor immediately">>),
     glucose |->
        Knowledge("Blood glucose levels indicate how much sugar is in your blood.",
                  <<"Excessive insulin", "Skipped meals", "Excessive exercise">>,
                  <<"Diabetes", "Insulin resistance", "Stress">>,
                  <<"Eat regular meals", "Monitor blood sugar", "Consult a doctor">>,
                  <<"Reduce sugar intake", "Exercise regularly", "Monitor glucose",
                    "Consult a doctor">>)]

-----------------------------------------------------------------------------
(* RAGService.generate_recommendations                                     *)

EmptyDict == <<>>

\* d.get(key, default)
DictGet(d, key, default) == IF key \in DOMAIN d THEN d[key] ELSE default

FallbackLines ==
    <<"(ok) All values appear to be within normal ranges.",
      "* Maintain a balanced diet and regular exercise.",
      "* Stay hydrated and get adequate sleep.">>

ClosingLine == "* Follow up with your healthcare provider for personalized advice."

DescriptionLine(metric, desc) == "(i) " \o metric.name \o ": " \o desc

AdviceLine(metric, status, rec) ==
    "* " \o metric.name \o " (" \o status \o "): " \o rec

\* the lines one pass of the loop body appends to recommendations
LinesForMetric(kb, metric) ==
    LET param_name == ReplaceSpaces(Lower(metric.name))
        status == DictGet(metric, "status", "normal")
        knowledge == DictGet(kb, param_name, EmptyDict)
        desc == DictGet(knowledge, "description", "")
        recs == DictGet(DictGet(knowledge, "recommendations", EmptyDict), status, <<>>)
    IN  IF status = "normal" THEN <<>>
        ELSE IF DOMAIN knowledge = {} THEN <<>>
        ELSE (IF desc # "" THEN <<DescriptionLine(metric, desc)>> ELSE <<>>)
             \o [i \in 1..Len(recs) |-> AdviceLine(metric, status, recs[i])]

RECURSIVE CollectLines(_, _)
\* for metric in metrics: ...
CollectLines(kb, ms) ==
    IF ms = <<>> THEN <<>>
    ELSE LinesForMetric(kb, Head(ms)) \o CollectLines(kb, Tail(ms))

\* mutant of generate_recommendations: the closing line is appended
\* unconditionally, after the fallback too
generate_recommendations_AlwaysClosing(kb, ms) ==
    LET lines == CollectLines(kb, ms)
    IN  Append(IF lines = <<>> THEN FallbackLines ELSE lines, ClosingLine)

generate_recommendations(kb, ms) ==
    LET lines == CollectLines(kb, ms)
    IN  IF lines = <<>> THEN FallbackLines ELSE Append(lines, ClosingLine)

-----------------------------------------------------------------------------
(* RAGService.generate_summary                                             *)

\* sum(1 for m in metrics if m.get('status') == status)
CountStatus(ms, status) ==
    Cardinality({i \in 1..Len(ms) : DictGet(ms[i], "status", "") = status})

\* mutant of IssueText: both counts are listed, zero or not
IssueText_BothAlways(low, high) ==
    ToString(low) \o " parameter(s) below normal" \o " and "
        \o ToString(high) \o " parameter(s) above normal"

\* " and ".join(issues)
IssueText(low, high) ==
    LET lowPart == ToString(low) \o " parameter(s) below normal"
        highPart == ToString(high) \o " parameter(s) above normal"
    IN  IF low > 0 /\ high > 0 THEN lowPart \o " and " \o highPart
        ELSE IF low > 0 THEN lowPart
        ELSE IF high > 0 THEN highPart
        ELSE ""

generate_summary(ms) ==
    LET total == Len(ms)
        normal == CountStatus(ms, "normal")
        low == CountStatus(ms, "low")
        high == CountStatus(ms, "high")
    IN  IF normal = total
        THEN "All " \o ToString(total) \o " tested parameters are within normal ranges."
        ELSE "Out of " \o ToString(total) \o " parameters tested, "
             \o ToString(normal) \o " are normal. "
             \o Capitalize(IssueText(low, high)) \o "."

-----------------------------------------------------------------------------
(* The texts the callers hand to the services.                             *)

Plus(a, b) == Norm(Dec(a.num * b.den + b.num * a.den, a.den * b.den))

RECURSIVE FracDigits(_, _)
FracDigits(r, den) ==
    IF den = 1 THEN ""
    ELSE ToString(r \div (den \div 10)) \o FracDigits(r % (den \div 10), den \div 10)

\* the decimal literal of a number, as a report (or str()) writes it
FormatDec(a) ==
    LET n == IF a.num < 0 THEN 0 - a.num ELSE a.num
    IN  (IF a.num < 0 THEN "-" ELSE "")
        \o ToString(n \div a.den)
        \o (IF a.den = 1 THEN "" ELSE "." \o FracDigits(n % a.den, a.den))

\* "<label>: <value> <unit>", or "<label>: <value>" when unit is ""
SyntheticLine(label, value, unit) ==
    label \o ": " \o FormatDec(value) \o (IF unit = "" THEN "" ELSE " " \o unit)

Below(entry) == Plus(entry.min, Whole(-1))     \* reference_min - 1
Above(entry) == Plus(entry.max, Whole(1))      \* reference_max + 1
Inside(entry) == Plus(entry.min, Tenths(1))    \* strictly inside the range

ProbeValues(entry) ==
    {Below(entry), entry.min, Inside(entry), entry.max, Above(entry)}

LabelsOf(entry) ==
    {entry.key} \cup {entry.aliases[j] : j \in 1..Len(entry.aliases)}

CatalogEntries == {InitialBloodParams[i] : i \in 1..Len(InitialBloodParams)}

\* one line per catalog label, probe value and unit choice
ProbeTexts ==
    UNION {{SyntheticLine(l, v, u) :
                l \in LabelsOf(e), v \in ProbeValues(e), u \in {e.unit, ""}} :
           e \in CatalogEntries}

ShortAlphabet == {"h", "b", ":", "-", "1", ".", " "}

RECURSIVE StringsUpTo(_)
\* every string over ShortAlphabet of length at most n
StringsUpTo(n) ==
    IF n = 0 THEN {""}
    ELSE LET shorter == StringsUpTo(n - 1)
         IN  {""} \cup {s \o c : s \in shorter, c \in ShortAlphabet}

ShortTexts == StringsUpTo(MaxAlphaLen)

ReportLines ==
    {"Hemoglobin: 9.5 g/dL",
     "Hb: 17 g/dL",
     "WBC: 7500 cells/mcL",
     "Glucose: 180 mg/dL",
     "RBC: 3.9 million cells/mcL",
     "Platelets - 450000",
     "Ward: 12 B"}

RECURSIVE ReportsOfLength(_)
\* the reports of exactly n lines, joined by newlines
ReportsOfLength(n) ==
    IF n = 1 THEN ReportLines
    ELSE {r \o "\n" \o l : r \in ReportsOfLength(n - 1), l \in ReportLines}

ReportTexts == UNION {ReportsOfLength(n) : n \in 1..MaxLines}

\* heading lines: words, no separator and no number
HeadingLines == {"Hemoglobin panel", "Glucose Report", "Blood Report"}

\* a heading line followed by one report line
HeadedTexts == {h \o "\n" \o l : h \in HeadingLines, l \in ReportLines}

EndToEndText == "Hemoglobin: 9.5 g/dL\nWBC: 7500 cells/mcL\nGlucose: 180 mg/dL"

AllNormalText == "Hemoglobin: 14 g/dL\nWBC: 7500 cells/mcL\nGlucose: 90 mg/dL"

GarbageText == "asdkjaslkdj"

Texts ==
    ProbeTexts \cup ShortTexts \cup ReportTexts \cup HeadedTexts
        \cup {EndToEndText, AllNormalText, GarbageText}

\* the texts of later requests, and of the two interleaved callers
FollowUpTexts ==
    {"", GarbageText, "hb: 9", "hb: 9 mg", "WBC: 7500 cells/mcL",
     "Hemoglobin: 9.5 g/dL\nHb: 17 g/dL"}

-----------------------------------------------------------------------------
(* OCRService (app/services/ocr_service.py).                               *)
(* A document is what the rendering and recognition libraries make of a    *)
(* file: whether convert_from_path / Image.open can read it, and for each  *)
(* page whether preprocess_image and image_to_string succeed and the text  *)
(* they give.                                                              *)

MaxPages == 3        \* pages of a document

\* page texts as the recognition engine returns them
PageTexts == {"Hemoglobin: 9.5 g/dL", "hb: 9", ""}

Pages ==
    {[ok |-> TRUE, text |-> t] : t \in PageTexts} \cup {[ok |-> FALSE, text |-> ""]}

RECURSIVE PageSeqs(_)
\* the sequences of exactly n pages
PageSeqs(n) ==
    IF n = 0 THEN {<<>>}
    ELSE {Append(q, p) : q \in PageSeqs(n - 1), p \in Pages}

Documents ==
    {[readable |-> TRUE, pages |-> q] : q \in UNION {PageSeqs(n) : n \in 0..MaxPages}}
        \cup {[readable |-> FALSE, pages |-> <<>>]}

NoDocument == [readable |-> FALSE, pages |-> <<>>]

NoResult == [text |-> "", error |-> "none"]

RECURSIVE Join(_, _)
\* sep.join(parts)
Join(sep, parts) ==
    IF parts = <<>> THEN ""
    ELSE IF Len(parts) = 1 THEN parts[1]
    ELSE parts[1] \o sep \o Join(sep, Tail(parts))

\* f"--- Page {i+1} ---\n{text}" for loop index i
PageEntry(i, t) == "--- Page " \o ToString(i + 1) \o " ---\n" \o t

\* mutant of PdfError: the pages read so far are handed back with the error
PdfError_PartialText(partial, cause) ==
    [text |-> Join("\n\n", partial),
     error |-> "Error extracting text from PDF: " \o cause]

\* except Exception as e: raise Exception(f"Error extracting text from PDF: ...")
\* -- the function returns nothing; partial is the local all_text it drops
PdfError(partial, cause) ==
    [text |-> "", error |-> "Error extracting text from PDF: " \o cause]

\* a caller invokes extract_text_from_pdf(pdf_path) on a document
CallExtractTextFromPdf ==
    /\ ocr_pc \in {"idle", "returned", "raised"}
    /\ \E d \in Documents : pdf' = d
    /\ all_text' = <<>>
    /\ ocr_i' = 0
    /\ ocr_result' = NoResult
    /\ ocr_pc' = "convert"
    /\ UNCHANGED <<serviceVars, webVars>>

\* images = convert_from_path(pdf_path, dpi=300); all_text = []
ConvertFromPath ==
    /\ ocr_pc = "convert"
    /\ IF pdf.readable
       THEN /\ ocr_pc' = "loop"
            /\ UNCHANGED ocr_result
       ELSE /\ ocr_pc' = "raised"
            /\ ocr_result' = PdfError(all_text, "PDFPageCountError")
    /\ UNCHANGED <<pdf, all_text, ocr_i, serviceVars, webVars>>

\* one pass of the loop body: preprocess_image, image_to_string, append
RecognizePage ==
    /\ ocr_pc = "loop"
    /\ ocr_i < Len(pdf.pages)
    /\ IF pdf.pages[ocr_i + 1].ok
       THEN /\ all_text' = Append(all_text, PageEntry(ocr_i, pdf.pages[ocr_i + 1].text))
            /\ ocr_i' = ocr_i + 1
            /\ UNCHANGED <<ocr_pc, ocr_result>>
       ELSE /\ ocr_pc' = "raised"
            /\ ocr_result' = PdfError(all_text, "TesseractError")
            /\ UNCHANGED <<all_text, ocr_i>>
    /\ UNCHANGED <<pdf, serviceVars, webVars>>

\* return "\n\n".join(all_text)
ReturnJoined ==
    /\ ocr_pc = "loop"
    /\ ocr_i = Len(pdf.pages)
    /\ ocr_result' = [text |-> Join("\n\n", all_text), error |-> "none"]
    /\ ocr_pc' = "returned"
    /\ UNCHANGED <<pdf, all_text, ocr_i, serviceVars, webVars>>

NextOcr ==
    \/ CallExtractTextFromPdf
    \/ ConvertFromPath
    \/ RecognizePage
    \/ ReturnJoined

RECURSIVE ReadPages(_, _, _)
\* the loop of extract_text_from_pdf run to its end from index i
ReadPages(pages, i, acc) ==
    IF i = Len(pages) THEN [text |-> Join("\n\n", acc), error |-> "none"]
    ELSE IF pages[i + 1].ok
    THEN ReadPages(pages, i + 1, Append(acc, PageEntry(i, pages[i + 1].text)))
    ELSE PdfError(acc, "TesseractError")

\* extract_text_from_pdf as one call
extract_text_from_pdf(d) ==
    IF d.readable THEN ReadPages(d.pages, 0, <<>>)
    ELSE PdfError(<<>>, "PDFPageCountError")

\* extract_text_from_image: the one image, stripped
extract_text_from_image(d) ==
    IF d.readable /\ d.pages # <<>> /\ d.pages[1].ok
    THEN [text |-> Strip(d.pages[1].text), error |-> "none"]
    ELSE [text |-> "",
          error |-> "Error extracting text from image: "
                        \o (IF d.readable /\ d.pages # <<>>
                            THEN "TesseractError" ELSE "UnidentifiedImageError")]

\* Path(...).suffix: from the last dot of the name on, "" when there is no
\* dot after the first character
Suffix(name) ==
    LET dots == {i \in 2..Len(name) : Ch(name, i) = "."}
    IN  IF dots = {} THEN ""
        ELSE SubSeq(name, CHOOSE i \in dots : \A j \in dots : j <= i, Len(name))

\* OCRService.extract_text: dispatch on the lower-cased suffix
extract_text(file_path, d) ==
    LET file_ext == Lower(Suffix(file_path))
    IN  IF file_ext = ".pdf" THEN extract_text_from_pdf(d)
        ELSE IF file_ext \in {".png", ".jpg", ".jpeg", ".gif", ".bmp"}
        THEN extract_text_from_image(d)
        ELSE [text |-> "", error |-> "Unsupported file type: " \o file_ext]

-----------------------------------------------------------------------------
(* The report routes (app/routes/reports.py) over the tables of            *)
(* app/database.py and the upload directory. A handler is an async         *)
(* function with no await in its body, so it runs from its first line to   *)
(* its response before another handler starts. Columns created_at, which   *)
(* no handler reads, are left out of the rows.                             *)

MaxReports == 2      \* rows of table reports at any one time

MAX_UPLOAD_SIZE == 10485760

UPLOAD_DIR == "data/uploads"

Users == {1}

\* names a user gives files: ".pdf" and ".PNG" pass the type check
FileNames == {"a.pdf", "b.PNG"}

\* a document that reads well
GoodDocument ==
    [readable |-> TRUE, pages |-> <<[ok |-> TRUE, text |-> "Hemoglobin: 9.5 g/dL"]>>]

\* what the uploaded files hold: a good report; a nearly blank one (too
\* little text as an image, enough with the page marker of a pdf); text with
\* no blood parameter; a document whose second page cannot be recognized
UploadedDocuments ==
    {GoodDocument,
     [readable |-> TRUE, pages |-> <<[ok |-> TRUE, text |-> " n/a "]>>],
     [readable |-> TRUE, pages |-> <<[ok |-> TRUE, text |-> "asdkjaslkdj"]>>],
     [readable |-> TRUE, pages |-> <<[ok |-> TRUE, text |-> "WBC: 7500 cells/mcL"],
                                     [ok |-> FALSE, text |-> ""]>>]}

UploadRequest(filename, d, file_size, commit_ok) ==
    [filename |-> filename, document |-> d, file_size |-> file_size,
     commit_ok |-> commit_ok]

\* the upload requests: every document under every name; a good document
\* whose commit fails; a file over the size limit; a file of another type
UploadRequests ==
    {UploadRequest(n, d, 2048, TRUE) : n \in FileNames, d \in UploadedDocuments}
        \cup {UploadRequest(n, GoodDocument, 2048, FALSE) : n \in FileNames}
        \cup {UploadRequest("a.pdf", GoodDocument, MAX_UPLOAD_SIZE + 1, TRUE),
              UploadRequest("notes.txt", GoodDocument, 2048, TRUE)}

\* the upload directory with no file in it
NoFiles == [p \in {} |-> NoDocument]

NoResponse ==
    [op |-> "none", status_code |-> 0, detail |-> "", file_path |-> "",
     written |-> FALSE, report_id |-> 0]

\* settings.UPLOAD_DIR / str(current_user.id) / file.filename
UploadPath(user_id, filename) ==
    UPLOAD_DIR \o "/" \o ToString(user_id) \o "/" \o filename

\* open(file_path, "wb") and copyfileobj: the file is created or overwritten
WriteFile(fs, path, content) ==
    [p \in DOMAIN fs \cup {path} |-> IF p = path THEN content ELSE fs[p]]

\* if file_path.exists(): file_path.unlink()
UnlinkIfExists(fs, path) == [p \in DOMAIN fs \ {path} |-> fs[p]]

\* the id a new row of a table gets: one more than the largest id in it
NewId(rows) ==
    IF rows = {} THEN 1
    ELSE (CHOOSE i \in {r.id : r \in rows} : \A r \in rows : r.id <= i) + 1

\* the Metric rows of a report, ids in the order they are added
MetricRows(rows, report_id, ms) ==
    {[id |-> NewId(rows) + k - 1,
      report_id |-> report_id,
      name |-> ms[k].name,
      value |-> ms[k].value,
      unit |-> ms[k].unit,
      reference_min |-> ms[k].reference_min,
      reference_max |-> ms[k].reference_max,
      status |-> ms[k].status] : k \in 1..Len(ms)}

\* the Recommendation rows of a report
RecommendationRows(rows, report_id, lines) ==
    {[id |-> NewId(rows) + k - 1,
      report_id |-> report_id,
      text |-> lines[k],
      source |-> "RAG System"] : k \in 1..Len(lines)}

\* mutant of Cascade: deleting a report leaves its child rows alone
Cascade_None(rows, report_id) == rows

\* cascade="all, delete-orphan": the child rows deleted with their report
Cascade(rows, report_id) == {r \in rows : r.report_id # report_id}

\* The state a request leaves behind: the tables, the directory, the response.
Outcome(rs, ms, recs, fs, resp) ==
    [reports |-> rs, metric_rows |-> ms, recommendation_rows |-> recs,
     files |-> fs, response |-> resp]

\* the HTTPException a request is answered with
Refused(op, code, detail, path, written, report_id) ==
    [op |-> op, status_code |-> code, detail |-> detail, file_path |-> path,
     written |-> written, report_id |-> report_id]

\* except HTTPException: raise -- nothing is undone on the way out
ReraiseHTTPException(fs, path, detail) ==
    Outcome(reports, metric_rows, recommendation_rows, fs,
            Refused("upload", 400, detail, path, TRUE, 0))

\* except Exception as e: db.rollback(); unlink the file; answer 500
RollbackAndCleanUp(fs, path, e) ==
    Outcome(reports, metric_rows, recommendation_rows, UnlinkIfExists(fs, path),
            Refused("upload", 500, "Error processing report: " \o e, path, TRUE, 0))

\* Step 4 of upload_report: the rows are added and committed
SaveReport(fs, user_id, filename, path, extracted_text, a, lines, summ, commit_ok) ==
    LET report == [id |-> NewId(reports),
                   user_id |-> user_id,
                   filename |-> filename,
                   file_path |-> path,
                   extracted_text |-> extracted_text,
                   summary |-> summ,
                   status |-> a.status]
    IN  IF ~commit_ok
        THEN RollbackAndCleanUp(fs, path, "OperationalError")
        ELSE Outcome(reports \cup {report},
                     metric_rows \cup MetricRows(metric_rows, report.id, a.metrics),
                     recommendation_rows
                         \cup RecommendationRows(recommendation_rows, report.id, lines),
                     fs,
                     [op |-> "upload", status_code |-> 201, detail |-> "",
                      file_path |-> path, written |-> TRUE, report_id |-> report.id])

\* the try block of upload_report, from the file write on
ProcessUpload(user_id, filename, d, commit_ok) ==
    LET file_path == UploadPath(user_id, filename)
        saved == WriteFile(files, file_path, d)
        ocr == extract_text(file_path, d)
        a == analyze_text(blood_params, ocr.text)
    IN  IF ocr.error # "none"
        THEN RollbackAndCleanUp(saved, file_path, ocr.error)
        ELSE IF ocr.text = "" \/ Len(Strip(ocr.text)) < 10
        THEN ReraiseHTTPException(saved, file_path,
                 "Could not extract sufficient text from the document.")
        ELSE IF a.raised # "none"
        THEN RollbackAndCleanUp(saved, file_path, a.raised)
        ELSE IF a.metrics = <<>>
        THEN ReraiseHTTPException(saved, file_path,
                 "Could not identify blood test parameters.")
        ELSE SaveReport(saved, user_id, filename, file_path, ocr.text, a,
                        generate_recommendations(knowledge_base, a.metrics),
                        generate_summary(a.metrics), commit_ok)

\* upload_report: the two validations, then the try block
upload_report(user_id, filename, d, file_size, commit_ok) ==
    LET file_ext == Lower(Suffix(filename))
    IN  IF file_ext \notin {".pdf", ".png", ".jpg", ".jpeg", ".gif"}
        THEN Outcome(reports, metric_rows, recommendation_rows, files,
                     Refused("upload", 400, "File type " \o file_ext \o " not supported.",
                             "", FALSE, 0))
        ELSE IF file_size > MAX_UPLOAD_SIZE
        THEN Outcome(reports, metric_rows, recommendation_rows, files,
                     Refused("upload", 400, "File size exceeds maximum allowed size",
                             "", FALSE, 0))
        ELSE ProcessUpload(user_id, filename, d, commit_ok)

\* delete_report
delete_report(user_id, report_id) ==
    LET found == {r \in reports : r.id = report_id /\ r.user_id = user_id}
    IN  IF found = {}
        THEN Outcome(reports, metric_rows, recommendation_rows, files,
                     Refused("delete", 404, "Report not found", "", FALSE, report_id))
        ELSE LET report == CHOOSE r \in found : TRUE
             IN  Outcome(reports \ {report},
                         Cascade(metric_rows, report.id),
                         Cascade(recommendation_rows, report.id),
                         UnlinkIfExists(files, report.file_path),
                         [op |-> "delete", status_code |-> 204, detail |-> "",
                          file_path |-> report.file_path, written |-> FALSE,
                          report_id |-> report_id])

\* the state after a request
Answered(o) ==
    /\ reports' = o.reports
    /\ metric_rows' = o.metric_rows
    /\ recommendation_rows' = o.recommendation_rows
    /\ files' = o.files
    /\ response' = o.response

\* POST /api/reports/upload
UploadReport ==
    /\ Cardinality(reports) < MaxReports
    /\ \E u \in Users : \E q \in UploadRequests :
           Answered(upload_report(u, q.filename, q.document, q.file_size, q.commit_ok))
    /\ UNCHANGED <<serviceVars, ocrVars>>

\* DELETE /api/reports/{report_id}
DeleteReport ==
    /\ \E u \in Users : \E report_id \in 1..MaxReports :
           Answered(delete_report(u, report_id))
    /\ UNCHANGED <<serviceVars, ocrVars>>

NextWeb ==
    \/ UploadReport
    \/ DeleteReport

-----------------------------------------------------------------------------
(* The state machine: each caller runs the call chain                      *)
(*   extract_metrics, analyze_text, generate_recommendations,              *)
(*   generate_summary                                                      *)
(* on its text against the one NERService and the one RAGService           *)
(* (module-level instances in app/routes/reports.py).                      *)

NoAnalysis == [metrics |-> <<>>, status |-> "normal", total_params |-> 0]

Constructed ==
    /\ blood_params = InitialBloodParams
    /\ knowledge_base = default_knowledge
    /\ metrics = [c \in Callers |-> <<>>]
    /\ raised = [c \in Callers |-> "none"]
    /\ analysis = [c \in Callers |-> NoAnalysis]
    /\ recommendations = [c \in Callers |-> <<>>]
    /\ summary = [c \in Callers |-> ""]
    /\ pdf = NoDocument
    /\ all_text = <<>>
    /\ ocr_i = 0
    /\ ocr_pc = "idle"
    /\ ocr_result = NoResult
    /\ reports = {}
    /\ metric_rows = {}
    /\ recommendation_rows = {}
    /\ files = NoFiles
    /\ response = NoResponse

\* one caller with any text of Texts; the other idle
Init ==
    /\ Constructed
    /\ \E t \in Texts : text = [c \in Callers |-> IF c = 1 THEN t ELSE ""]
    /\ pc = [c \in Callers |-> IF c = 1 THEN "start" ELSE "idle"]

\* two callers at once
InitPair ==
    /\ Constructed
    /\ text \in [Callers -> FollowUpTexts]
    /\ pc = [c \in Callers |-> "start"]

\* the catalog after a run that writes each metric's unit back into the
\* catalog entry it was built from
CatalogWithUnits(catalog, ms) ==
    [i \in 1..Len(catalog) |->
        LET hits == {k \in 1..Len(ms) : ms[k].name = Capitalize(catalog[i].key)}
        IN  IF hits = {} THEN catalog[i]
            ELSE [catalog[i] EXCEPT
                    !.unit = ms[CHOOSE k \in hits : \A j \in hits : j <= k].unit]]

\* mutant of ExtractMetrics: the metric is built by updating the shared
\* catalog entry in place
ExtractMetrics_WritesCatalog(c) ==
    /\ pc[c] = "start"
    /\ LET r == extract_metrics(blood_params, text[c])
       IN  /\ metrics' = [metrics EXCEPT ![c] = r.metrics]
           /\ raised' = [raised EXCEPT ![c] = r.raised]
           /\ pc' = [pc EXCEPT ![c] = IF r.raised = "none" THEN "extracted" ELSE "failed"]
           /\ blood_params' = CatalogWithUnits(blood_params, r.metrics)
    /\ UNCHANGED <<knowledge_base, text, analysis, recommendations, summary>>
    /\ UNCHANGED <<ocrVars, webVars>>

ExtractMetrics(c) ==
    /\ pc[c] = "start"
    /\ LET r == extract_metrics(blood_params, text[c])
       IN  /\ metrics' = [metrics EXCEPT ![c] = r.metrics]
           /\ raised' = [raised EXCEPT ![c] = r.raised]
           /\ pc' = [pc EXCEPT ![c] = IF r.raised = "none" THEN "extracted" ELSE "failed"]
    /\ UNCHANGED <<blood_params, knowledge_base, text, analysis, recommendations, summary>>
    /\ UNCHANGED <<ocrVars, webVars>>

AnalyzeText(c) ==
    /\ pc[c] = "extracted"
    /\ LET r == analyze_text(blood_params, text[c])
       IN  /\ analysis' = [analysis EXCEPT ![c] =
                  [metrics |-> r.metrics, status |-> r.status,
                   total_params |-> r.total_params]]
           /\ raised' = [raised EXCEPT ![c] = r.raised]
           /\ pc' = [pc EXCEPT ![c] = IF r.raised = "none" THEN "analyzed" ELSE "failed"]
    /\ UNCHANGED <<blood_params, knowledge_base, text, metrics, recommendations, summary>>
    /\ UNCHANGED <<ocrVars, webVars>>

GenerateRecommendations(c) ==
    /\ pc[c] = "analyzed"
    /\ recommendations' = [recommendations EXCEPT ![c] =
           generate_recommendations(knowledge_base, analysis[c].metrics)]
    /\ pc' = [pc EXCEPT ![c] = "recommended"]
    /\ UNCHANGED <<blood_params, knowledge_base, text, metrics, raised, analysis, summary>>
    /\ UNCHANGED <<ocrVars, webVars>>

GenerateSummary(c) ==
    /\ pc[c] = "recommended"
    /\ summary' = [summary EXCEPT ![c] = generate_summary(analysis[c].metrics)]
    /\ pc' = [pc EXCEPT ![c] = "done"]
    /\ UNCHANGED <<blood_params, knowledge_base, text, metrics, raised, analysis,
                   recommendations>>
    /\ UNCHANGED <<ocrVars, webVars>>

\* a caller that is done comes back with another text
Submit(c) ==
    /\ pc[c] = "done"
    /\ \E t \in FollowUpTexts : text' = [text EXCEPT ![c] = t]
    /\ pc' = [pc EXCEPT ![c] = "start"]
    /\ metrics' = [metrics EXCEPT ![c] = <<>>]
    /\ analysis' = [analysis EXCEPT ![c] = NoAnalysis]
    /\ recommendations' = [recommendations EXCEPT ![c] = <<>>]
    /\ summary' = [summary EXCEPT ![c] = ""]
    /\ UNCHANGED <<blood_params, knowledge_base, raised>>
    /\ UNCHANGED <<ocrVars, webVars>>

Next ==
    \E c \in Callers :
        \/ ExtractMetrics(c)
        \/ AnalyzeText(c)
        \/ GenerateRecommendations(c)
        \/ GenerateSummary(c)
        \/ Submit(c)

Spec == Init /\ [][Next]_vars

SpecPair == InitPair /\ [][Next]_vars

\* the services constructed, no caller in them
InitIdle ==
    /\ Constructed
    /\ text = [c \in Callers |-> ""]
    /\ pc = [c \in Callers |-> "idle"]

\* text recovery of paginated documents, one call after another
SpecOcr == InitIdle /\ [][NextOcr]_vars

\* upload and delete requests, one after another
SpecWeb == InitIdle /\ [][NextWeb]_vars

-----------------------------------------------------------------------------
(* Properties.                                                             *)

Extracted(c) == pc[c] \in {"extracted", "analyzed", "recommended", "done"}
Analyzed(c) == pc[c] \in {"analyzed", "recommended", "done"}
Recommended(c) == pc[c] \in {"recommended", "done"}

SeqToSet(q) == {q[i] : i \in 1..Len(q)}

StartsWith(str, prefix) ==
    Len(str) >= Len(prefix) /\ SubSeq(str, 1, Len(prefix)) = prefix

\* exactly one metric, named after entry, with the given status
OneMetric(ms, entry, status) ==
    /\ Len(ms) = 1
    /\ ms[1].name = Capitalize(entry.key)
    /\ ms[1].status = status

\* the probe values a report can print: the pattern reads no sign, so a
\* probe below a reference_min under 1 is left out (it yields no metric)
Readable(v) == v.num >= 0

\* C1: for every catalog entry, the line "<canonical_name>: <min - 1> <unit>"
\* yields exactly one metric, named after the entry, with status low; with
\* <max + 1> exactly one with status high; with a value strictly inside the
\* range exactly one with status normal. (Stated for the probes that are
\* not negative.)
C1_ProbeLinesClassified ==
    \A c \in Callers : Extracted(c) =>
        \A e \in CatalogEntries :
            /\ (Readable(Below(e)) /\ text[c] = SyntheticLine(e.key, Below(e), e.unit))
                   => OneMetric(metrics[c], e, "low")
            /\ text[c] = SyntheticLine(e.key, Above(e), e.unit)
                   => OneMetric(metrics[c], e, "high")
            /\ text[c] = SyntheticLine(e.key, Inside(e), e.unit)
                   => OneMetric(metrics[c], e, "normal")

ReadableProbeValues(entry) == {v \in ProbeValues(entry) : Readable(v)}

\* the metrics of the line "<canonical_name>: <value> <unit>"
CanonicalLineMetrics(entry, v) ==
    extract_metrics(blood_params, SyntheticLine(entry.key, v, entry.unit)).metrics

\* C2: for every catalog entry and every alias of it, the line
\* "<alias>: <value> <unit>" yields a metric resolved to the alias's own
\* entry (its name, reference_min and reference_max), with the status the
\* line "<canonical_name>: <value> <unit>" receives. (Stated for the values
\* that are not negative, and compared with the canonical line where that
\* line yields a metric.)
C2_AliasResolvesToOwnEntry ==
    \A c \in Callers : Extracted(c) =>
        \A e \in CatalogEntries :
            \A j \in 1..Len(e.aliases) : \A v \in ReadableProbeValues(e) :
                text[c] = SyntheticLine(e.aliases[j], v, e.unit) =>
                    /\ Len(metrics[c]) = 1
                    /\ metrics[c][1].name = Capitalize(e.key)
                    /\ metrics[c][1].reference_min = e.min
                    /\ metrics[c][1].reference_max = e.max
                    /\ Len(CanonicalLineMetrics(e, v)) = 1 =>
                           metrics[c][1].status = CanonicalLineMetrics(e, v)[1].status

\* the catalog entries a metric's name names
EntriesNamed(name) ==
    {i \in 1..Len(blood_params) : Capitalize(blood_params[i].key) = name}

MetricClassified(m) ==
    /\ EntriesNamed(m.name) # {}
    /\ \A i \in EntriesNamed(m.name) :
           /\ m.reference_min = blood_params[i].min
           /\ m.reference_max = blood_params[i].max
    /\ m.status \in {"low", "normal", "high"}
    /\ m.status = "low" <=> m.value.num * m.reference_min.den
                               < m.reference_min.num * m.value.den
    /\ m.status = "high" <=> m.value.num * m.reference_max.den
                               > m.reference_max.num * m.value.den

\* C3: every metric extract_metrics returns is low exactly when its value is
\* below its own reference_min, high exactly when above its own
\* reference_max, normal otherwise (a value equal to a bound is normal), and
\* its reference range is that of the catalog entry its name names.
C3_StatusFollowsOwnRange ==
    \A c \in Callers : Extracted(c) =>
        \A i \in 1..Len(metrics[c]) : MetricClassified(metrics[c][i])

\* a metric whose value sits exactly on a bound of its range
C3_Witness ==
    \E c \in Callers : Extracted(c) /\
        \E i \in 1..Len(metrics[c]) :
            /\ metrics[c][i].value = metrics[c][i].reference_max
            /\ metrics[c][i].status = "normal"

OutOfRange(m) ==
    \/ m.value.num * m.reference_min.den < m.reference_min.num * m.value.den
    \/ m.value.num * m.reference_max.den > m.reference_max.num * m.value.den

\* C4: analyze_text reports critical if any metric is critical, otherwise
\* warning if any metric is low or high, otherwise normal; as no metric is
\* ever critical it reports only normal or warning, and warning exactly when
\* some extracted metric is out of range.
C4_OverallStatus ==
    \A c \in Callers : Analyzed(c) =>
        LET ms == analysis[c].metrics
            st == analysis[c].status
        IN  /\ \A i \in 1..Len(ms) : ms[i].status # "critical"
            /\ st \in {"normal", "warning"}
            /\ st = "warning" <=> \E i \in 1..Len(ms) : ms[i].status \in {"low", "high"}
            /\ st = "warning" <=> \E i \in 1..Len(ms) : OutOfRange(ms[i])
            /\ analysis[c].total_params = Len(ms)

\* a report whose only out-of-range metric is a low one
C4_Witness ==
    \E c \in Callers :
        /\ Analyzed(c)
        /\ analysis[c].status = "warning"
        /\ \E i \in 1..Len(analysis[c].metrics) : analysis[c].metrics[i].status = "low"
        /\ \A i \in 1..Len(analysis[c].metrics) : analysis[c].metrics[i].status # "high"

EndToEndSummary ==
    "Out of 3 parameters tested, 1 are normal. 1 parameter(s) below normal and 1 parameter(s) above normal."

\* C5: on "Hemoglobin: 9.5 g/dL", "WBC: 7500 cells/mcL", "Glucose: 180 mg/dL"
\* (one per line) the chain analyze_text, generate_recommendations,
\* generate_summary yields three metrics in text order (hemoglobin low, WBC
\* normal, glucose high), overall status warning, recommendations holding a
\* hemoglobin-low entry and a glucose-high entry and ending with the
\* follow-up line, and the stated summary.
C5_EndToEnd ==
    \A c \in Callers : (pc[c] = "done" /\ text[c] = EndToEndText) =>
        LET ms == analysis[c].metrics
            recs == recommendations[c]
        IN  /\ Len(ms) = 3
            /\ ms[1].name = "Hemoglobin" /\ ms[1].status = "low"
            /\ ms[1].value = Tenths(95) /\ ms[1].unit = "g/dL"
            /\ ms[2].name = "Wbc" /\ ms[2].status = "normal"
            /\ ms[2].value = Whole(7500) /\ ms[2].unit = "cells/mcL"
            /\ ms[3].name = "Glucose" /\ ms[3].status = "high"
            /\ ms[3].value = Whole(180) /\ ms[3].unit = "mg/dL"
            /\ analysis[c].status = "warning"
            /\ \E i \in 1..Len(recs) : StartsWith(recs[i], "* Hemoglobin (low): ")
            /\ \E i \in 1..Len(recs) : StartsWith(recs[i], "* Glucose (high): ")
            /\ Len(recs) > 0 /\ recs[Len(recs)] = ClosingLine
            /\ summary[c] = EndToEndSummary

C5_Witness == pc[1] = "done" /\ text[1] = EndToEndText /\ Len(recommendations[1]) = 10

\* a candidate no catalog entry resolves, on a line of its own
UnresolvedLine == "Ward: 12 B"

\* C6: extract_metrics never raises; a candidate whose label resolves to no
\* catalog entry (or whose number does not parse) is dropped and the scan of
\* the rest of the text goes on; text with no resolvable candidate (empty,
\* or garbage such as "asdkjaslkdj") yields no metric and analyze_text
\* reports normal.
C6_NeverRaises ==
    \A c \in Callers :
        /\ raised[c] = "none" /\ pc[c] # "failed"
        /\ (Extracted(c) /\ text[c] \in {"", GarbageText}) => metrics[c] = <<>>
        /\ (Analyzed(c) /\ text[c] \in {"", GarbageText}) =>
               analysis[c].metrics = <<>> /\ analysis[c].status = "normal"
        /\ Extracted(c) =>
               \A l \in ReportLines :
                   text[c] = UnresolvedLine \o "\n" \o l =>
                       metrics[c] = extract_metrics(InitialBloodParams, l).metrics

\* an unresolvable candidate was dropped and the metric after it was found
C6_Witness ==
    \E c \in Callers :
        /\ Extracted(c)
        /\ text[c] = UnresolvedLine \o "\n" \o "Hb: 17 g/dL"
        /\ Len(metrics[c]) = 1 /\ metrics[c][1].name = "Hemoglobin"

\* C7: extract_metrics is a pure function of its text: two runs on the same
\* text, one after the other (the direct call, then the one inside
\* analyze_text) or interleaved with another caller's calls on the same
\* service, return the same ordered metrics, and no call ever changes the
\* catalog or the knowledge base.
C7_PureAndReadOnly ==
    /\ blood_params = InitialBloodParams
    /\ knowledge_base = default_knowledge
    /\ \A c \in Callers : Analyzed(c) => analysis[c].metrics = metrics[c]
    /\ \A c, d \in Callers :
           (Extracted(c) /\ Extracted(d) /\ text[c] = text[d]) => metrics[c] = metrics[d]

\* both callers ran the whole chain on the same text, which has metrics
C7_Witness ==
    /\ pc[1] = "done" /\ pc[2] = "done"
    /\ text[1] = text[2]
    /\ metrics[1] # <<>> /\ metrics[1] = metrics[2]

KnowledgeKey(m) == ReplaceSpaces(Lower(m.name))

\* no metric is non-normal, or no non-normal metric has a knowledge entry
NothingToAdvise(ms) ==
    \A i \in 1..Len(ms) :
        ms[i].status = "normal" \/ KnowledgeKey(ms[i]) \notin DOMAIN knowledge_base

\* C8: generate_recommendations returns the fixed three-line fallback (no
\* closing line) exactly when no metric is non-normal or no non-normal
\* metric resolves to a knowledge entry; otherwise the list holds no
\* fallback line and ends with the single closing line. Fallback and
\* closing line never appear together.
C8_FallbackOrClosing ==
    \A c \in Callers : Recommended(c) =>
        LET ms == analysis[c].metrics
            recs == recommendations[c]
        IN  /\ NothingToAdvise(ms) <=> recs = FallbackLines
            /\ ~NothingToAdvise(ms) =>
                   /\ SeqToSet(recs) \cap SeqToSet(FallbackLines) = {}
                   /\ recs[Len(recs)] = ClosingLine
                   /\ Cardinality({i \in 1..Len(recs) : recs[i] = ClosingLine}) = 1
            /\ ~(ClosingLine \in SeqToSet(recs)
                    /\ SeqToSet(recs) \cap SeqToSet(FallbackLines) # {})

\* an out-of-range metric without a knowledge entry: still the fallback
C8_Witness ==
    \E c \in Callers :
        /\ Recommended(c)
        /\ \E i \in 1..Len(analysis[c].metrics) : analysis[c].metrics[i].status # "normal"
        /\ recommendations[c] = FallbackLines

NumberWith(ms, status) == Cardinality({i \in 1..Len(ms) : ms[i].status = status})

\* C9: for a metric list from extract_metrics, generate_summary returns
\* "All <total> tested parameters are within normal ranges." when every
\* metric is normal, and otherwise "Out of <total> parameters tested,
\* <normal> are normal. <clause>." where the clause names the low and/or
\* high count (the nonzero ones, joined by " and "), is never empty, and
\* normal + low + high = total.
C9_SummaryText ==
    \A c \in Callers : pc[c] = "done" =>
        LET ms == analysis[c].metrics
            total == Len(ms)
            normal == NumberWith(ms, "normal")
            low == NumberWith(ms, "low")
            high == NumberWith(ms, "high")
            lowPart == ToString(low) \o " parameter(s) below normal"
            highPart == ToString(high) \o " parameter(s) above normal"
            clause == CASE low > 0 /\ high > 0 -> lowPart \o " and " \o highPart
                        [] low > 0 /\ high = 0 -> lowPart
                        [] low = 0 /\ high > 0 -> highPart
                        [] OTHER -> ""
        IN  /\ normal + low + high = total
            /\ normal = total =>
                   summary[c] = "All " \o ToString(total)
                                \o " tested parameters are within normal ranges."
            /\ normal # total =>
                   /\ clause # ""
                   /\ summary[c] = "Out of " \o ToString(total)
                          \o " parameters tested, " \o ToString(normal)
                          \o " are normal. " \o clause \o "."

\* a report with high metrics, no low one and a normal one
C9_Witness ==
    \E c \in Callers :
        /\ pc[c] = "done"
        /\ NumberWith(analysis[c].metrics, "high") > 0
        /\ NumberWith(analysis[c].metrics, "low") = 0
        /\ NumberWith(analysis[c].metrics, "normal") > 0

\* C10: the list generate_recommendations returns is deduplicated: no string
\* appears twice in it, also when the same parameter occurs more than once
\* with a non-normal status.
C10_NoDuplicateLines ==
    \A c \in Callers : Recommended(c) =>
        \A i, j \in 1..Len(recommendations[c]) :
            recommendations[c][i] = recommendations[c][j] => i = j

-----------------------------------------------------------------------------
(* Label resolution, units and lines (C14 to C16).                         *)

\* a label the pattern's group 1 can capture whole: letters and spaces only
AlphaLabel(l) == l # "" /\ \A i \in 1..Len(l) : Ch(l, i) \in AlphaCh \cup {" "}

\* the entries, in catalog order, with a key or alias inside the label
EntriesInside(label) ==
    {i \in 1..Len(InitialBloodParams) :
        \E l \in LabelsOf(InitialBloodParams[i]) : Contains(l, Lower(label))}

\* the earliest of them in the catalog's insertion order
EarliestInside(label) ==
    CHOOSE i \in EntriesInside(label) : \A j \in EntriesInside(label) : i <= j

\* the probe lines with such a label, each with the entry it is to resolve to
AlphaProbes ==
    UNION {{[line |-> SyntheticLine(l, v, u), unit |-> u, first |-> EarliestInside(l)] :
                l \in {a \in LabelsOf(e) : AlphaLabel(a)},
                v \in ReadableProbeValues(e), u \in {e.unit, ""}} :
           e \in CatalogEntries}

RECURSIVE SplitFrom(_, _, _)
\* str.split("\n"): line is the part of the current line read so far
SplitFrom(s, i, line) ==
    IF i > Len(s) THEN <<line>>
    ELSE IF Ch(s, i) = "\n" THEN <<line>> \o SplitFrom(s, i + 1, "")
    ELSE SplitFrom(s, i + 1, line \o Ch(s, i))

SplitLines(s) == SplitFrom(s, 1, "")

\* the report lines whose number has a unit written after it
LinesWithUnit ==
    {l \in ReportLines : FindAll(l) # <<>> /\ FindAll(l)[Len(FindAll(l))].unit # ""}

RECURSIVE MetricsLineByLine(_)
\* the metrics of each line on its own, in the order of the lines
MetricsLineByLine(lines) ==
    IF lines = <<>> THEN <<>>
    ELSE extract_metrics(InitialBloodParams, Head(lines)).metrics
             \o MetricsLineByLine(Tail(lines))

\* C14: a line "<label>: <number> [unit]" whose label is letters and spaces
\* and holds a catalog key or alias yields one metric, named after the
\* earliest catalog entry (insertion order) with a key or alias inside the
\* lower-cased label, whatever longer key or alias a later entry has; a label
\* holding no key or alias yields no metric; and the metrics of a report
\* whose lines all carry a unit are those of its lines, in the order of the
\* lines.
C14_FirstEntryInCatalogOrder ==
    \A c \in Callers : Extracted(c) =>
        /\ \A p \in AlphaProbes :
               text[c] = p.line =>
                   /\ Len(metrics[c]) = 1
                   /\ metrics[c][1].name = Capitalize(InitialBloodParams[p.first].key)
        /\ text[c] \in {"Ward: 12 B", GarbageText} => metrics[c] = <<>>
        /\ (\A k \in 1..Len(SplitLines(text[c])) :
                SplitLines(text[c])[k] \in LinesWithUnit)
               => metrics[c] = MetricsLineByLine(SplitLines(text[c]))

\* a later entry's longer alias is in the label, and the earlier entry wins
C14_Witness ==
    /\ Extracted(1)
    /\ text[1] = "hdl cholesterol: 39 mg/dL"
    /\ Len(metrics[1]) = 1
    /\ metrics[1][1].name = "Cholesterol"
    /\ Cardinality(EntriesInside("hdl cholesterol")) > 1

\* the metric a report line yields when it is read on its own
LineMetrics(line) == extract_metrics(InitialBloodParams, line).metrics

\* C15: the unit of every metric is the unit written after its number, and
\* the catalog's unit when none is written. For a line on its own: the unit
\* written on the line (a unit of one word), else the unit of the entry the
\* label resolves to.
\* For a report of several lines: every metric is the metric of one of the
\* lines with the unit that line gives it, so a number with no unit before a
\* line that starts with another label still carries the catalog's unit.
C15_UnitWrittenOrCanonical ==
    \A c \in Callers : Extracted(c) =>
        /\ \A p \in AlphaProbes :
               (text[c] = p.line /\ ~Contains(" ", p.unit)) =>
                   \A k \in 1..Len(metrics[c]) :
                       metrics[c][k].unit =
                           IF p.unit # "" THEN p.unit
                           ELSE InitialBloodParams[p.first].unit
        /\ (\A j \in 1..Len(SplitLines(text[c])) :
                SplitLines(text[c])[j] \in ReportLines)
               => \A k \in 1..Len(metrics[c]) :
                      \E j \in 1..Len(SplitLines(text[c])) :
                          LET lm == LineMetrics(SplitLines(text[c])[j])
                          IN  /\ Len(lm) = 1
                              /\ lm[1].name = metrics[c][k].name
                              /\ lm[1].value = metrics[c][k].value
                              /\ lm[1].unit = metrics[c][k].unit

\* C16: in a report of heading lines and of lines that carry a unit, every
\* metric has the name and the value that one of the lines gives when read
\* on its own, so a key or alias on a heading line (no separator, no number)
\* never names the metric of a later line; and every line that yields a
\* metric on its own has that metric, by name and value, among the metrics
\* of the report.
C16_NameFromSameLine ==
    \A c \in Callers : Extracted(c) =>
        LET lines == SplitLines(text[c])
        IN  (\A j \in 1..Len(lines) : lines[j] \in LinesWithUnit \cup HeadingLines) =>
                /\ \A k \in 1..Len(metrics[c]) :
                       \E j \in 1..Len(lines) : \E i \in 1..Len(LineMetrics(lines[j])) :
                           /\ LineMetrics(lines[j])[i].name = metrics[c][k].name
                           /\ LineMetrics(lines[j])[i].value = metrics[c][k].value
                /\ \A j \in 1..Len(lines) : \A i \in 1..Len(LineMetrics(lines[j])) :
                       \E k \in 1..Len(metrics[c]) :
                           /\ LineMetrics(lines[j])[i].name = metrics[c][k].name
                           /\ LineMetrics(lines[j])[i].value = metrics[c][k].value

-----------------------------------------------------------------------------
(* Text recovery (C13).                                                    *)

RECURSIVE PagesInOrder(_, _)
\* the texts of pages n, n+1, ... each under its marker "--- Page N ---",
\* separated by a blank line
PagesInOrder(pages, n) ==
    IF n > Len(pages) THEN ""
    ELSE "--- Page " \o ToString(n) \o " ---" \o "\n" \o pages[n].text
             \o (IF n < Len(pages) THEN "\n\n" \o PagesInOrder(pages, n + 1) ELSE "")

AllPagesRecognized(d) == d.readable /\ \A n \in 1..Len(d.pages) : d.pages[n].ok

\* C13: extract_text_from_pdf ends in one of two ways. It returns, and then
\* every page was recognized and the text is that of all pages in page
\* order, page N under the marker "--- Page N ---"; or it raises one
\* extraction error, and then it hands back no text at all, whatever pages
\* were recognized before the failing one. Before it ends it has handed back
\* nothing.
C13_AllPagesOrOneError ==
    /\ ocr_pc = "returned" =>
           /\ AllPagesRecognized(pdf)
           /\ ocr_result.error = "none"
           /\ ocr_result.text = PagesInOrder(pdf.pages, 1)
    /\ ocr_pc = "raised" =>
           /\ ~AllPagesRecognized(pdf)
           /\ ocr_result.text = ""
           /\ StartsWith(ocr_result.error, "Error extracting text from PDF: ")
    /\ ocr_pc \in {"idle", "convert", "loop"} => ocr_result = NoResult
    /\ ocr_pc \in {"returned", "raised"} => ocr_result = extract_text_from_pdf(pdf)

\* the third page fails after two pages with text were recognized
C13_Witness ==
    /\ ocr_pc = "raised"
    /\ ocr_i = 2
    /\ Len(all_text) = 2
    /\ pdf.pages[1].text # ""
    /\ ocr_result.text = ""

-----------------------------------------------------------------------------
(* Uploads, deletes and what they leave stored (C11, C12, C17).            *)

\* C11: a step that answers an upload with a failure after the file was
\* written leaves the three tables as they were and leaves no file at the
\* path the upload was written to.
C11_FailedUploadLeavesNothing ==
    [][(response'.op = "upload" /\ response'.written /\ response'.status_code # 201)
          => /\ reports' = reports
             /\ metric_rows' = metric_rows
             /\ recommendation_rows' = recommendation_rows
             /\ response'.file_path \notin DOMAIN files']_vars

ReportIds == {r.id : r \in reports}

\* C12: every metric row and every recommendation row references a report
\* that exists, and right after a delete request has succeeded no metric or
\* recommendation row references the report it deleted.
C12_ReferentialIntegrity ==
    /\ \A m \in metric_rows : m.report_id \in ReportIds
    /\ \A r \in recommendation_rows : r.report_id \in ReportIds
    /\ (response.op = "delete" /\ response.status_code = 204) =>
           /\ response.report_id \notin ReportIds
           /\ \A m \in metric_rows : m.report_id # response.report_id
           /\ \A r \in recommendation_rows : r.report_id # response.report_id

\* one of two reports has just been deleted; the other is there with its rows
C12_Witness ==
    /\ response.op = "delete"
    /\ response.status_code = 204
    /\ Cardinality(reports) = 1
    /\ metric_rows # {}
    /\ recommendation_rows # {}

\* C17: the file_path of every persisted report names a file that exists in
\* the upload directory.
C17_ReportFilesExist ==
    \A r \in reports : r.file_path \in DOMAIN files

=============================================================================
